---- MODULE Spec2Model ----
(***************************************************************************)
(* Model of movies-tiler.py: parse_geometry, parse_args, the generator     *)
(* get_frame_iterator and the main loop of run.                            *)
(*                                                                         *)
(* Strings are sequences of one-character strings.  Command-line values    *)
(* and the contents of the input files are environment inputs; each is     *)
(* drawn when the code first reads it.  Images are records                 *)
(* [cells, w, h]: cells is the grid of (source, frame index) pairs the     *)
(* image is made of, w and h its size in pixels.  The --fps and --quiet    *)
(* options only affect the wait time and the progress output and are left  *)
(* out.                                                                    *)
(***************************************************************************)
EXTENDS Integers, Sequences, FiniteSets, TLC

\* ------------------------------------------------------------------ bounds
MaxGeomLen == 3      \* longest geometry string enumerated exhaustively
MaxInputs  == 4      \* largest number of input paths on the command line
MaxSrcLen  == 2      \* largest number of frames a source file holds
MaxEvery   == 2      \* largest --every value
MaxFrames  == MaxSrcLen + 2   \* cap of nb_frames for loops that never end

GeomAlphabet == {"1", "2", "x", "-", "a"}

\* longer geometry strings, tried besides the exhaustive ones
ExtraGeoms ==
    { <<"-", "1", "x", "-", "1">>, <<"-", "2", "x", "-", "1">>,
      <<"-", "1", "x", "-", "2">>, <<"1", "x", "2", "x", "1">> }

GeomStrings ==
    (UNION { [1..n -> GeomAlphabet] : n \in 0..MaxGeomLen }) \cup ExtraGeoms

\* sizes of the frames as stored in the input files
NativeDims == { <<1, 1>>, <<3, 2>> }

\* key codes waitKey can return: none, ESC, another key
KeyCodes == { -1, 27, 32 }

\* values getWindowProperty can return: closed, open
WindowProps == { -1, 0 }

ESC == 27

\* --------------------------------------------------------- parse_geometry
Digits == {"0", "1", "2", "3", "4", "5", "6", "7", "8", "9"}

DigitVal(c) ==
    CASE c = "0" -> 0 [] c = "1" -> 1 [] c = "2" -> 2 [] c = "3" -> 3
      [] c = "4" -> 4 [] c = "5" -> 5 [] c = "6" -> 6 [] c = "7" -> 7
      [] c = "8" -> 8 [] c = "9" -> 9

RECURSIVE SplitAt(_, _, _)
SplitAt(s, parts, cur) ==
    IF s = <<>> THEN Append(parts, cur)
    ELSE IF Head(s) = "x" THEN SplitAt(Tail(s), Append(parts, cur), <<>>)
    ELSE SplitAt(Tail(s), parts, Append(cur, Head(s)))

\* s.split('x')
Split(s) == SplitAt(s, <<>>, <<>>)

RECURSIVE NatOf(_, _)
NatOf(p, acc) ==
    IF p = <<>> THEN acc ELSE NatOf(Tail(p), 10 * acc + DigitVal(Head(p)))

AllDigits(p) == p # <<>> /\ \A k \in 1..Len(p) : p[k] \in Digits

\* does int(p) return (TRUE) or raise ValueError (FALSE)
IntOk(p) ==
    /\ p # <<>>
    /\ IF Head(p) \in {"-", "+"} THEN AllDigits(Tail(p)) ELSE AllDigits(p)

\* int(p)
IntOf(p) ==
    IF Head(p) = "-" THEN 0 - NatOf(Tail(p), 0)
    ELSE IF Head(p) = "+" THEN NatOf(Tail(p), 0)
    ELSE NatOf(p, 0)

\* parse_geometry(s): ok is FALSE when it prints the error and exits
parse_geometry(s) ==
    LET parts == Split(s)
    IN  IF Len(parts) = 2 /\ IntOk(parts[1]) /\ IntOk(parts[2])
        THEN [ok |-> TRUE, w |-> IntOf(parts[1]), h |-> IntOf(parts[2])]
        ELSE [ok |-> FALSE, w |-> 0, h |-> 0]

\* CountOk with the comparison of the check turned into 'more than'
CountOk_AtMost(ninput, grid) == ninput <= grid[1] * grid[2]

\* the consistency check of parse_args
CountOk(ninput, grid) == ninput = grid[1] * grid[2]

\* ------------------------------------------------------------------ images
None == [cells |-> <<>>, w |-> 0, h |-> 0]

\* the frame number idx of source src as decoded, in its native size
RawFrame(src, idx, dim) ==
    [cells |-> << << <<src, idx>> >> >>, w |-> dim[1], h |-> dim[2]]

\* cv2.resize raises on a size that is not positive
ResizeOk(dim) == dim[1] > 0 /\ dim[2] > 0

\* cv2.resize(frame, dim)
Resize(frame, dim) == [frame EXCEPT !.w = dim[1], !.h = dim[2]]

RECURSIVE SumW(_)
SumW(imgs) == IF imgs = <<>> THEN 0 ELSE Head(imgs).w + SumW(Tail(imgs))

RECURSIVE SumH(_)
SumH(imgs) == IF imgs = <<>> THEN 0 ELSE Head(imgs).h + SumH(Tail(imgs))

RECURSIVE JoinRow(_)
JoinRow(imgs) ==
    IF imgs = <<>> THEN <<>>
    ELSE IF Head(imgs).cells = <<>> THEN JoinRow(Tail(imgs))
    ELSE Head(imgs).cells[1] \o JoinRow(Tail(imgs))

RECURSIVE JoinRows(_)
JoinRows(imgs) ==
    IF imgs = <<>> THEN <<>> ELSE Head(imgs).cells \o JoinRows(Tail(imgs))

\* cv2.hconcat raises unless all images have the same height
HConcatOk(imgs) == \A k \in 1..Len(imgs) : imgs[k].h = imgs[1].h

\* cv2.hconcat(imgs): the images side by side, left to right
HConcat(imgs) ==
    IF SumW(imgs) = 0 THEN None
    ELSE [cells |-> << JoinRow(imgs) >>, w |-> SumW(imgs), h |-> imgs[1].h]

\* cv2.vconcat raises unless all images have the same width
VConcatOk(imgs) == \A k \in 1..Len(imgs) : imgs[k].w = imgs[1].w

\* cv2.vconcat(imgs): the images stacked, top to bottom
VConcat(imgs) ==
    IF SumH(imgs) = 0 THEN None
    ELSE [cells |-> JoinRows(imgs), w |-> imgs[1].w, h |-> SumH(imgs)]

\* ------------------------------------------------------------------- state
VARIABLES
    pc,         \* position of the program
    argv,       \* the --resize and --grid strings as given
    args,       \* the parsed arguments
    iters,      \* iters[i]: state of the generator of input i
    writer,     \* the cv2.VideoWriter
    window,     \* the preview window
    finished, endeds, nb_frames,      \* locals of run
    ix, row, col, do_it, this_row, bands, img

vars == << pc, argv, args, iters, writer, window, finished, endeds,
           nb_frames, ix, row, col, do_it, this_row, bands, img >>

loopvars == << finished, endeds, nb_frames, ix, row, col, do_it,
               this_row, bands, img >>

\* a string no command line holds: the option has not been read yet
Unread == << "?" >>

NoWriter == [opened |-> FALSE, dim |-> <<0, 0>>, written |-> <<>>,
             released |-> FALSE]

NoWindow == [created |-> FALSE, shown |-> <<>>]

Init ==
    /\ pc = "parse_resize"
    /\ argv = [resize |-> Unread, grid |-> Unread]
    /\ args = [resize |-> <<0, 0>>, grid |-> <<0, 0>>, ninput |-> 0,
               every |-> 1, output |-> FALSE, preview |-> FALSE]
    /\ iters = <<>>
    /\ writer = NoWriter
    /\ window = NoWindow
    /\ finished = FALSE
    /\ endeds = <<>>
    /\ nb_frames = 0
    /\ ix = 0 /\ row = 0 /\ col = 0
    /\ do_it = FALSE
    /\ this_row = <<>>
    /\ bands = <<>>
    /\ img = None

\* --------------------------------------------------------------- parse_args
\* args.resize = parse_geometry(args.resize)
ParseResize ==
    /\ pc = "parse_resize"
    /\ \E s \in GeomStrings :
         LET g == parse_geometry(s)
         IN  /\ argv' = [argv EXCEPT !.resize = s]
             /\ IF g.ok
                THEN /\ args' = [args EXCEPT !.resize = <<g.w, g.h>>]
                     /\ pc' = "parse_grid"
                ELSE /\ args' = args
                     /\ pc' = "config_error"
    /\ UNCHANGED << iters, writer, window, loopvars >>

\* args.grid = parse_geometry(args.grid)
ParseGrid ==
    /\ pc = "parse_grid"
    /\ \E s \in GeomStrings :
         LET g == parse_geometry(s)
         IN  /\ argv' = [argv EXCEPT !.grid = s]
             /\ IF g.ok
                THEN /\ args' = [args EXCEPT !.grid = <<g.w, g.h>>]
                     /\ pc' = "check_count"
                ELSE /\ args' = args
                     /\ pc' = "config_error"
    /\ UNCHANGED << iters, writer, window, loopvars >>

\* the consistency check: len(args.input) against the grid
CheckCount ==
    /\ pc = "check_count"
    /\ \E n \in 1..MaxInputs :
         /\ args' = [args EXCEPT !.ninput = n]
         /\ pc' = IF CountOk(n, args.grid) THEN "run" ELSE "config_error"
    /\ UNCHANGED << argv, iters, writer, window, loopvars >>

\* ------------------------------------------------------ get_frame_iterator
\* a generator that has not run yet: its body starts at the first next()
NewIterator ==
    [gpc |-> "start", ended |-> FALSE, last_frame |-> None, frame |-> None,
     cap |-> [created |-> FALSE, opened |-> FALSE, pos |-> 0, eof |-> FALSE,
              reads |-> 0],
     calls |-> 0, raised |-> FALSE]

\* the outcomes cap.read() can have: a closed or finished capture only fails
ReadOutcomes(it) ==
    IF it.gpc = "start" THEN BOOLEAN
    ELSE IF it.cap.opened /\ ~it.cap.eof /\ it.cap.pos < MaxSrcLen
         THEN BOOLEAN ELSE {FALSE}

\* Resume without the statement 'last_frame = frame'
Resume_NoCache(it, opens) ==
    CASE it.gpc = "start" ->
           [it EXCEPT !.cap = [created |-> TRUE, opened |-> opens,
                               pos |-> 0, eof |-> FALSE,
                               reads |-> 0]]
      [] OTHER -> it

\* from the point where the generator was suspended to the top of its loop:
\* the first call runs the three initial statements, a call after
\* 'yield frame, ended' runs 'last_frame = frame'
Resume(it, opens) ==
    CASE it.gpc = "start" ->
           [it EXCEPT !.cap = [created |-> TRUE, opened |-> opens,
                               pos |-> 0, eof |-> FALSE,
                               reads |-> 0]]
      [] it.gpc = "y_frame" -> [it EXCEPT !.last_frame = it.frame]
      [] OTHER -> it

\* LoopBody without the test 'if ended': every call reads the capture
LoopBody_NoEndedTest(it, src, dim, readOk, native) ==
    IF ~(readOk /\ it.cap.opened /\ ~it.cap.eof)
    THEN [it EXCEPT !.ended = TRUE, !.gpc = "y_last", !.cap.eof = TRUE,
                    !.cap.reads = @ + 1]
    ELSE IF ~ResizeOk(dim)
    THEN [it EXCEPT !.cap.pos = @ + 1, !.cap.reads = @ + 1,
                    !.raised = TRUE]
    ELSE [it EXCEPT !.cap.pos = @ + 1, !.cap.reads = @ + 1,
                    !.gpc = "y_frame",
                    !.frame = Resize(RawFrame(src, it.cap.pos, native), dim)]

\* one pass of the generator's loop, up to its next yield (or to the
\* exception of cv2.resize); cap.reads counts the calls of cap.read()
LoopBody(it, src, dim, readOk, native) ==
    IF it.ended
    THEN [it EXCEPT !.gpc = "y_ended"]
    ELSE IF ~(readOk /\ it.cap.opened)
    THEN [it EXCEPT !.ended = TRUE, !.gpc = "y_last", !.cap.eof = TRUE,
                    !.cap.reads = @ + 1]
    ELSE IF ~ResizeOk(dim)
    THEN [it EXCEPT !.cap.pos = @ + 1, !.cap.reads = @ + 1,
                    !.raised = TRUE]
    ELSE [it EXCEPT !.cap.pos = @ + 1, !.cap.reads = @ + 1,
                    !.gpc = "y_frame",
                    !.frame = Resize(RawFrame(src, it.cap.pos, native), dim)]

\* next(iters[src])
GenNext(it, src, dim, opens, readOk, native) ==
    LET r == LoopBody(Resume(it, opens), src, dim, readOk, native)
    IN  [r EXCEPT !.calls = @ + 1]

\* the pair the generator is suspended on
Yielded(it) ==
    IF it.gpc = "y_frame" THEN <<it.frame, it.ended>>
    ELSE <<it.last_frame, it.ended>>

\* ----------------------------------------------------------------------- run
cols == args.grid[1]
rows == args.grid[2]

\* do_it = (nb_frames % args.every) == 0
DoIt(n, every) == (n % every) = 0

\* AllEnded with any() in the place of all()
AllEnded_Any(e) == (DOMAIN e # {}) /\ (\E k \in DOMAIN e : e[k])

\* endeds.values() and all(endeds.values())
AllEnded(e) == (DOMAIN e # {}) /\ (\A k \in DOMAIN e : e[k])

\* PreviewGate without the test of do_it
PreviewGate_Always(preview, doit) == preview

\* if args.preview and do_it
PreviewGate(preview, doit) == preview /\ doit

\* WriteGate without the test of do_it
WriteGate_Always(output, doit) == output

\* if args.output and do_it
WriteGate(output, doit) == output /\ doit

\* ExitStatus with the test of finished outside the test of args.output
ExitStatus_NoOutputTest(output, fin) ==
    IF fin THEN "returned" ELSE "interrupted"

\* the end of run: sys.exit(1) if args.output and not finished
ExitStatus(output, fin) ==
    IF output /\ ~fin THEN "interrupted" ELSE "returned"

\* a cv2 call on an empty image either raises cv2.error or goes on
MayRaise(empty) == IF empty THEN BOOLEAN ELSE {FALSE}

\* the writer and window set-up and the creation of the generators
Setup ==
    /\ pc = "run"
    /\ \E every \in 1..MaxEvery, output \in BOOLEAN, preview \in BOOLEAN :
         /\ args' = [args EXCEPT !.every = every, !.output = output,
                                 !.preview = preview]
         /\ writer' = IF output
                      THEN [opened |-> TRUE,
                            dim |-> <<args.resize[1] * cols,
                                      args.resize[2] * rows>>,
                            written |-> <<>>, released |-> FALSE]
                      ELSE writer
         /\ window' = IF preview THEN [window EXCEPT !.created = TRUE]
                      ELSE window
    /\ iters' = [i \in 0..(args.ninput - 1) |-> NewIterator]
    /\ finished' = FALSE
    /\ endeds' = <<>>
    /\ nb_frames' = 0
    /\ pc' = "loop_head"
    /\ UNCHANGED << argv, ix, row, col, do_it, this_row, bands, img >>

\* where the row loop goes with 'row' rows done
RowTarget(r) ==
    IF r >= rows THEN "vconcat" ELSE IF cols > 0 THEN "next_frame" ELSE "hconcat"

\* top of the while loop: ix = 0, bands = [], do_it; entry of the row loop
LoopHead ==
    /\ pc = "loop_head"
    /\ ix' = 0
    /\ bands' = <<>>
    /\ do_it' = DoIt(nb_frames, args.every)
    /\ row' = 0 /\ col' = 0 /\ this_row' = <<>>
    /\ pc' = RowTarget(0)
    /\ UNCHANGED << argv, args, iters, writer, window, finished, endeds,
                    nb_frames, img >>

\* body of the column loop: frame, ended = next(iters[ix]) ... ix += 1
NextFrame ==
    /\ pc = "next_frame"
    /\ IF ix \notin DOMAIN iters
       THEN /\ pc' = "crashed"
            /\ UNCHANGED << iters, endeds, this_row, ix, col >>
       ELSE \E opens \in BOOLEAN, readOk \in ReadOutcomes(iters[ix]),
               native \in NativeDims :
              LET it == GenNext(iters[ix], ix, args.resize, opens, readOk,
                                native)
              IN  /\ iters' = [iters EXCEPT ![ix] = it]
                  /\ IF it.raised
                     THEN /\ pc' = "crashed"
                          /\ UNCHANGED << endeds, this_row, ix, col >>
                     ELSE /\ endeds' = (ix :> Yielded(it)[2]) @@ endeds
                          /\ this_row' = Append(this_row, Yielded(it)[1])
                          /\ ix' = ix + 1
                          /\ col' = col + 1
                          /\ pc' = IF col + 1 < cols THEN "next_frame"
                                   ELSE "hconcat"
    /\ UNCHANGED << argv, args, writer, window, finished, nb_frames, row,
                    do_it, bands, img >>

\* bands.append(cv2.hconcat(this_row)), then the next row
HConcatRow ==
    /\ pc = "hconcat"
    /\ \E raises \in MayRaise(SumW(this_row) = 0) :
         IF raises \/ ~HConcatOk(this_row)
         THEN /\ pc' = "crashed"
              /\ UNCHANGED << bands, row, col, this_row >>
         ELSE /\ bands' = Append(bands, HConcat(this_row))
              /\ row' = row + 1
              /\ col' = 0
              /\ this_row' = <<>>
              /\ pc' = RowTarget(row + 1)
    /\ UNCHANGED << argv, args, iters, writer, window, finished, endeds,
                    nb_frames, ix, do_it, img >>

\* img = cv2.vconcat(bands)
VConcatBands ==
    /\ pc = "vconcat"
    /\ \E raises \in MayRaise(SumH(bands) = 0) :
         IF raises \/ ~VConcatOk(bands)
         THEN /\ pc' = "crashed"
              /\ img' = img
         ELSE /\ img' = VConcat(bands)
              /\ pc' = "preview"
    /\ UNCHANGED << argv, args, iters, writer, window, finished, endeds,
                    nb_frames, ix, row, col, do_it, this_row, bands >>

\* does the preview branch break out of the loop
Cancels(key, prop, err) == err \/ key = ESC \/ prop = -1

\* Preview with the write of the composite done before the break
Preview_WriteThenBreak ==
    /\ pc = "preview"
    /\ IF PreviewGate(args.preview, do_it)
       THEN \E raises \in MayRaise(img = None), key \in KeyCodes,
               prop \in WindowProps, err \in BOOLEAN :
              IF raises
              THEN /\ pc' = "crashed"
                   /\ UNCHANGED << window, writer >>
              ELSE /\ window' = [window EXCEPT !.shown =
                                   Append(@, [n |-> nb_frames, img |-> img])]
                   /\ IF Cancels(key, prop, err)
                      THEN /\ pc' = "after_loop"
                           /\ writer' =
                                IF WriteGate(args.output, do_it)
                                THEN [writer EXCEPT !.written =
                                   Append(@, [n |-> nb_frames, img |-> img])]
                                ELSE writer
                      ELSE /\ pc' = "write"
                           /\ writer' = writer
       ELSE /\ pc' = "write"
            /\ UNCHANGED << window, writer >>
    /\ UNCHANGED << argv, args, iters, loopvars >>

\* if args.preview and do_it: imshow, waitKey, getWindowProperty
Preview ==
    /\ pc = "preview"
    /\ IF PreviewGate(args.preview, do_it)
       THEN \E raises \in MayRaise(img = None), key \in KeyCodes,
               prop \in WindowProps, err \in BOOLEAN :
              IF raises
              THEN /\ pc' = "crashed"
                   /\ window' = window
              ELSE /\ window' = [window EXCEPT !.shown =
                                   Append(@, [n |-> nb_frames, img |-> img])]
                   /\ pc' = IF Cancels(key, prop, err) THEN "after_loop"
                            ELSE "write"
       ELSE /\ pc' = "write"
            /\ window' = window
    /\ UNCHANGED << argv, args, iters, writer, loopvars >>

\* if args.output and do_it: writer.write(img)
Write ==
    /\ pc = "write"
    /\ IF WriteGate(args.output, do_it)
       THEN \E raises \in MayRaise(img = None) :
              IF raises
              THEN /\ pc' = "crashed"
                   /\ writer' = writer
              ELSE /\ writer' = [writer EXCEPT !.written =
                                   Append(@, [n |-> nb_frames, img |-> img])]
                   /\ pc' = "check_ended"
       ELSE /\ pc' = "check_ended"
            /\ writer' = writer
    /\ UNCHANGED << argv, args, iters, window, loopvars >>

\* the exhaustion check, then nb_frames += 1
CheckEnded ==
    /\ pc = "check_ended"
    /\ IF AllEnded(endeds)
       THEN /\ finished' = TRUE
            /\ nb_frames' = nb_frames
            /\ pc' = "after_loop"
       ELSE /\ nb_frames < MaxFrames
            /\ finished' = finished
            /\ nb_frames' = nb_frames + 1
            /\ pc' = "loop_head"
    /\ UNCHANGED << argv, args, iters, writer, window, endeds, ix, row, col,
                    do_it, this_row, bands, img >>

\* AfterLoop with the exhaustion test made again after the loop
AfterLoop_RecheckEnded ==
    /\ pc = "after_loop"
    /\ writer' = IF args.output THEN [writer EXCEPT !.released = TRUE]
                 ELSE writer
    /\ pc' = ExitStatus(args.output, finished \/ AllEnded(endeds))
    /\ UNCHANGED << argv, args, iters, window, loopvars >>

\* AfterLoop with the interruption exit taken before writer.release()
AfterLoop_ExitBeforeRelease ==
    /\ pc = "after_loop"
    /\ writer' = IF args.output /\ finished
                 THEN [writer EXCEPT !.released = TRUE]
                 ELSE writer
    /\ pc' = ExitStatus(args.output, finished)
    /\ UNCHANGED << argv, args, iters, window, loopvars >>

\* after the loop: writer.release(), and sys.exit(1) if not finished
AfterLoop ==
    /\ pc = "after_loop"
    /\ writer' = IF args.output THEN [writer EXCEPT !.released = TRUE]
                 ELSE writer
    /\ pc' = ExitStatus(args.output, finished)
    /\ UNCHANGED << argv, args, iters, window, loopvars >>

Next ==
    \/ ParseResize \/ ParseGrid \/ CheckCount \/ Setup
    \/ LoopHead \/ NextFrame \/ HConcatRow \/ VConcatBands
    \/ Preview \/ Write \/ CheckEnded \/ AfterLoop

Spec == Init /\ [][Next]_vars

\* the pass of the loop past the cap of nb_frames, for a run without sink:
\* nothing but the counter tells such iterations apart, and the counter is
\* held at the cap
CheckEndedHeld ==
    /\ pc = "check_ended"
    /\ ~AllEnded(endeds)
    /\ nb_frames = MaxFrames
    /\ ~args.output /\ ~args.preview
    /\ pc' = "loop_head"
    /\ UNCHANGED << argv, args, iters, writer, window, loopvars >>

NextLive == Next \/ CheckEndedHeld

\* the program is one thread that runs on as long as it has a next step
LiveSpec == Init /\ [][NextLive]_vars /\ WF_vars(NextLive)

TypeOK ==
    /\ pc \in {"parse_resize", "parse_grid", "check_count", "config_error",
               "run", "loop_head", "next_frame", "hconcat", "vconcat",
               "preview", "write", "check_ended", "after_loop", "returned",
               "interrupted", "crashed"}
    /\ nb_frames \in 0..MaxFrames
    /\ finished \in BOOLEAN

\* -------------------------------------------------------------- properties
LoopPcs == {"loop_head", "next_frame", "hconcat", "vconcat", "preview",
            "write", "check_ended"}

\* the loop was left by one of the break statements of the preview branch
Cancelled == pc \in {"after_loop", "returned", "interrupted"} /\ ~finished

\* the iterations a log of dispatched composites holds
IterationsOf(log) == { log[k].n : k \in 1..Len(log) }

\* the gated iterations among 0..n
GatedUpTo(n) == { k \in 0..n : k % args.every = 0 }

\* frame k of source i, in the target size
FrameOf(i, k) ==
    [cells |-> << << <<i, k>> >> >>, w |-> args.resize[1],
     h |-> args.resize[2]]

\* the last frame source i decoded, if it decoded one
LastDecoded(i) ==
    IF iters[i].cap.pos = 0 THEN None ELSE FrameOf(i, iters[i].cap.pos - 1)

RECURSIVE MaxPos(_)
MaxPos(S) ==
    IF S = {} THEN 0
    ELSE LET i == CHOOSE j \in S : TRUE
             m == MaxPos(S \ {i})
         IN  IF iters[i].cap.pos > m THEN iters[i].cap.pos ELSE m

\* the largest number of frames a source held
MaxLength == MaxPos(DOMAIN iters)

\* C1 as stated: a loop that stops by exhaustion over sources that all hold
\* a frame has run max(len) iterations, the last one included
C1_MaxLenIterations ==
    (finished /\ \A i \in DOMAIN iters : iters[i].cap.pos >= 1)
        => nb_frames + 1 = MaxLength

\* C1 amended: a loop that stops by exhaustion stops on iteration number
\* max(len), counted from 0: it has run max(len) + 1 iterations, one more
\* than the longest source has frames
C1_MaxLenPlusOneIterations ==
    finished => /\ nb_frames = MaxLength
                /\ \A i \in DOMAIN iters : iters[i].calls = MaxLength + 1

C1_Witness ==
    /\ finished
    /\ nb_frames = 2
    /\ \E i, j \in DOMAIN iters :
         iters[i].cap.pos = 1 /\ iters[j].cap.pos = 2

\* C2 as stated: after a cancellation with a file sink, the composite of the
\* cancelled iteration is the last one written
C2_CancelledCompositeWritten ==
    (Cancelled /\ args.output)
        => /\ writer.written # <<>>
           /\ writer.written[Len(writer.written)].n = nb_frames

\* C2 amended: after a cancellation on iteration k with a file sink, the
\* composite of iteration k was shown but not written: the file holds the
\* gated iterations before k only (k composites when the stride is 1), and
\* the run ends as interrupted
C2_CancelledCompositeNotWritten ==
    (Cancelled /\ args.output)
        => /\ window.shown # <<>>
           /\ window.shown[Len(window.shown)] =
                [n |-> nb_frames, img |-> img]
           /\ IterationsOf(writer.written) =
                { k \in GatedUpTo(nb_frames) : k < nb_frames }
           /\ Len(writer.written) =
                Cardinality(IterationsOf(writer.written))
           /\ (args.every = 1 => Len(writer.written) = nb_frames)
           /\ pc # "returned"

C2_Witness ==
    /\ pc = "interrupted"
    /\ args.every = 1
    /\ nb_frames = 2
    /\ Len(writer.written) = 2

C3_Yields ==
    \A i \in DOMAIN iters :
      LET it == iters[i]
          y  == Yielded(it)
      IN  (it.calls > 0 /\ ~it.raised) =>
            IF y[2]
            THEN y[1] = LastDecoded(i) /\ it.calls > it.cap.pos
            ELSE y[1] = FrameOf(i, it.calls - 1) /\ it.cap.pos = it.calls

C3_Tail ==
    \A i \in DOMAIN iters :
      (iters[i].calls > 0 /\ Yielded(iters[i])[2])
         => /\ Yielded(iters'[i]) = Yielded(iters[i])
            /\ iters'[i].cap.pos = iters[i].cap.pos

\* C3: call number k of a source yields frame k with ended false as long as
\* the reads succeed; from the first failing read on, every call yields
\* ended true with the same frame, the last one decoded (a source that
\* decoded nothing has no such frame and holds None)
C3_HoldLastFrame == []C3_Yields /\ [][C3_Tail]_vars

C3_Witness ==
    \E i \in DOMAIN iters :
      /\ iters[i].ended
      /\ iters[i].cap.pos >= 1
      /\ iters[i].calls >= iters[i].cap.pos + 2

\* C4: the loop is left with finished set only on an iteration in which
\* every source yielded ended true, with the composite of that iteration
\* built and, on a gated iteration, shown and written where the sink is
\* active
C4_ExhaustedAfterDispatch ==
    finished =>
      /\ \A i \in DOMAIN iters :
           /\ i \in DOMAIN endeds /\ endeds[i]
           /\ Yielded(iters[i])[2]
           /\ iters[i].calls = nb_frames + 1
      /\ img # None =>
           \A r \in 1..rows, c \in 1..cols :
             img.cells[r][c] =
               << (r - 1) * cols + (c - 1),
                  iters[(r - 1) * cols + (c - 1)].cap.pos - 1 >>
      /\ (args.output /\ nb_frames % args.every = 0) =>
           /\ writer.written # <<>>
           /\ writer.written[Len(writer.written)] =
                [n |-> nb_frames, img |-> img]
      /\ (args.preview /\ nb_frames % args.every = 0) =>
           /\ window.shown # <<>>
           /\ window.shown[Len(window.shown)] =
                [n |-> nb_frames, img |-> img]

C4_Witness ==
    /\ finished
    /\ args.output /\ args.preview
    /\ nb_frames = 2 /\ args.every = 2
    /\ img # None

\* C5: only iterations whose number is a multiple of the stride are shown
\* or written, none twice; an iteration that reaches its exhaustion check
\* has every gated iteration so far in each active sink, so that both
\* sinks hold the same iterations
C5_GateUniform ==
    /\ \A k \in IterationsOf(writer.written) : k % args.every = 0
    /\ \A k \in IterationsOf(window.shown) : k % args.every = 0
    /\ Len(writer.written) = Cardinality(IterationsOf(writer.written))
    /\ Len(window.shown) = Cardinality(IterationsOf(window.shown))
    /\ (pc = "check_ended" \/ finished) =>
         /\ args.output =>
              IterationsOf(writer.written) = GatedUpTo(nb_frames)
         /\ args.preview =>
              IterationsOf(window.shown) = GatedUpTo(nb_frames)
         /\ (args.output /\ args.preview) =>
              writer.written = window.shown

C5_Witness ==
    /\ pc = "check_ended"
    /\ args.output /\ args.preview
    /\ args.every = 2
    /\ nb_frames = 2
    /\ Len(writer.written) = 2

\* C6: on every iteration each source is pulled exactly once: once the
\* row loop of iteration nb_frames is over, every source has had
\* nb_frames + 1 calls
C6_PulledOncePerIteration ==
    pc \in {"vconcat", "preview", "write", "check_ended"} =>
      \A i \in DOMAIN iters : iters[i].calls = nb_frames + 1

\* C7: run ends with sys.exit(1) and the interruption message exactly when
\* an output file is configured and the loop was left by a break; a loop
\* left by exhaustion, or by a break without an output file, returns
C7_FailureIffCancelledWithOutput ==
    /\ pc \in {"returned", "interrupted"} =>
         /\ (pc = "interrupted") <=> (args.output /\ Cancelled)
         /\ finished \/ Cancelled
         /\ args.output => writer.released
    /\ Cancelled =>
         /\ args.preview
         /\ window.shown # <<>>
         /\ window.shown[Len(window.shown)].n = nb_frames

C7_Witness ==
    /\ pc = "returned"
    /\ Cancelled
    /\ nb_frames >= 1

\* C8: no source yields a missing frame and none enters a row of the
\* composite
C8_NoNullFrame ==
    /\ \A i \in DOMAIN iters :
         (iters[i].calls > 0 /\ ~iters[i].raised)
            => Yielded(iters[i])[1] # None
    /\ \A k \in 1..Len(this_row) : this_row[k] # None

\* C9: a source whose stream cannot be opened is found before the loop:
\* no source is pulled, nothing is dispatched and the source is not marked
\* as ended
C9_OpenFailsAtConstruction ==
    \A i \in DOMAIN iters :
      (iters[i].cap.created /\ ~iters[i].cap.opened) =>
         /\ pc \notin LoopPcs
         /\ ~iters[i].ended
         /\ \A j \in DOMAIN iters : iters[j].calls = 0
         /\ writer.written = <<>> /\ window.shown = <<>>

\* INTEGER: an optional sign and one digit or more
IsInteger(p) ==
    \E n \in 1..Len(p) :
      /\ \A k \in (Len(p) - n + 1)..Len(p) : p[k] \in Digits
      /\ Len(p) - n \in {0, 1}
      /\ Len(p) - n = 1 => p[1] \in {"-", "+"}

\* the syntax INTEGERxINTEGER
WellFormed(s) ==
    \E k \in 1..Len(s) :
      /\ s[k] = "x"
      /\ IsInteger(SubSeq(s, 1, k - 1))
      /\ IsInteger(SubSeq(s, k + 1, Len(s)))

\* a geometry string read so far is malformed, or the number of inputs read
\* differs from columns * rows
ConfigInvalid ==
    \/ argv.resize # Unread /\ ~WellFormed(argv.resize)
    \/ argv.grid # Unread /\ ~WellFormed(argv.grid)
    \/ args.ninput # 0 /\ args.ninput # cols * rows

\* C10: a malformed geometry or a wrong number of inputs ends in the
\* error exit of parse_args, with no generator created, no writer and no
\* window opened and no capture created
C10_ConfigErrorBeforeRun ==
    /\ ConfigInvalid =>
         /\ pc = "config_error"
         /\ iters = <<>>
         /\ ~writer.opened /\ ~window.created
    /\ pc = "config_error" => ConfigInvalid

C10_Witness ==
    /\ pc = "config_error"
    /\ argv.grid = <<"2", "x", "2">>
    /\ args.ninput = 3

\* the positions at which parse_args has returned and run is executing
RunPcs == {"run", "after_loop", "returned", "interrupted", "crashed"}
              \cup LoopPcs

\* C11: a configuration that reaches run has a positive number of columns
\* and of rows, and as many inputs as the grid has cells
C11_GridPositive ==
    pc \in RunPcs =>
      /\ cols > 0 /\ rows > 0
      /\ cols * rows = args.ninput

\* C12: on a grid with positive columns and rows, every frame that enters
\* a row of the composite has the target size, and every composite built
\* has the size columns * width by rows * height the writer was opened with
C12_CompositeDimension ==
    (pc \in LoopPcs /\ cols > 0 /\ rows > 0) =>
      /\ \A k \in 1..Len(this_row) :
           /\ this_row[k].w = args.resize[1]
           /\ this_row[k].h = args.resize[2]
      /\ pc \in {"preview", "write", "check_ended"} =>
           /\ img.w = cols * args.resize[1]
           /\ img.h = rows * args.resize[2]
           /\ args.output => writer.dim = <<img.w, img.h>>

C13_Finalized ==
    /\ pc \in LoopPcs \cup {"after_loop"} => ~writer.released
    /\ (pc \in {"returned", "interrupted"} /\ args.output) => writer.released
    /\ writer.released => args.output /\ writer.opened

C13_Release ==
    /\ writer.released => writer' = writer
    /\ (~writer.released /\ writer'.released) =>
         /\ pc = "after_loop"
         /\ writer'.written = writer.written
    /\ pc' = "interrupted" => writer'.released

\* C13: with an output file, a loop left by exhaustion or by a break is
\* followed by one writer.release(), after the last write and before the
\* interruption exit; the release keeps the composites written and nothing
\* is written or released after it
C13_FinalizedOnce == []C13_Finalized /\ [][C13_Release]_vars

C13_Witness ==
    /\ pc = "interrupted"
    /\ writer.released
    /\ Len(writer.written) >= 1

C14_Reads ==
    \A i \in DOMAIN iters :
      /\ iters[i].cap.reads =
           iters[i].cap.pos + (IF iters[i].ended THEN 1 ELSE 0)
      /\ iters[i].cap.reads <= iters[i].calls

C14_NoReadAfterEnd ==
    \A i \in DOMAIN iters :
      iters[i].ended => /\ iters'[i].ended
                        /\ iters'[i].cap = iters[i].cap

\* C14: a source that is marked ended is never read again: the capture of
\* a source that yielded L frames has had L successful reads and one
\* failing read, whatever the number of later calls
C14_ReadsOnce == []C14_Reads /\ [][C14_NoReadAfterEnd]_vars

C14_Witness ==
    \E i \in DOMAIN iters :
      /\ iters[i].ended
      /\ iters[i].cap.pos = 1 /\ iters[i].cap.reads = 2
      /\ iters[i].calls = 3

\* C15: in an iteration the sources are pulled once each in the order of
\* their index (source i has had its call of the iteration when ix is past
\* i, and all have had it when the rows are done), and the cell in row r
\* and column c of the composite holds a frame of source r * columns + c
C15_RowMajorOrder ==
    /\ pc \in {"next_frame", "hconcat"} =>
         \A i \in DOMAIN iters :
           iters[i].calls = nb_frames + (IF i < ix THEN 1 ELSE 0)
    /\ pc \in {"vconcat", "preview", "write", "check_ended"} =>
         /\ ix = args.ninput
         /\ \A i \in DOMAIN iters : iters[i].calls = nb_frames + 1
    /\ (pc \in {"preview", "write", "check_ended"} /\ img # None) =>
         \A r \in 0..(rows - 1), c \in 0..(cols - 1) :
           img.cells[r + 1][c + 1][1] = r * cols + c

\* C16: when the exhaustion check is evaluated, endeds has an entry for
\* each source index 0..columns*rows-1, equal to the ended value the
\* source yielded in this iteration
C16_ExhaustionMapComplete ==
    pc = "check_ended" =>
      /\ DOMAIN endeds = 0..(cols * rows - 1)
      /\ \A i \in DOMAIN endeds :
           /\ i \in DOMAIN iters
           /\ endeds[i] = Yielded(iters[i])[2]

\* the iteration nb_frames is gated and the preview is on
PreviewPolls == args.preview /\ nb_frames % args.every = 0

C17_PolledOnce ==
    /\ Cancelled => PreviewPolls
    /\ Len(window.shown) = Cardinality(IterationsOf(window.shown))

C17_OnlyGatedPreviewBreaks ==
    /\ (pc \in LoopPcs /\ pc' = "after_loop" /\ ~finished') =>
         pc = "preview" /\ PreviewPolls
    /\ (pc = "preview" /\ ~PreviewPolls) =>
         /\ pc' \in {"preview", "write"}
         /\ window' = window
    /\ window' # window => pc \in {"run", "preview"}

\* C17: the loop is left by a break only from the preview branch of a gated
\* iteration with the preview on, which runs at most once per iteration;
\* on an iteration that is not gated, or without preview, the step after
\* the composite goes on to the write and polls nothing
C17_CancelOnlyWhenGated ==
    []C17_PolledOnce /\ [][C17_OnlyGatedPreviewBreaks]_vars

C17_Witness ==
    /\ pc = "write"
    /\ args.preview
    /\ args.every = 2 /\ nb_frames = 1
    /\ Len(window.shown) = 1

C18_BreakBeforeCheck ==
    /\ (pc = "preview" /\ pc' = "after_loop" /\ AllEnded(endeds)) =>
         ~finished'
    /\ (pc = "after_loop" /\ ~finished) =>
         /\ ~finished'
         /\ pc' \in {"after_loop",
                     IF args.output THEN "interrupted" ELSE "returned"}

\* C18: a break of the preview branch on an iteration in which every
\* source yielded ended true leaves finished false, and run then exits as
\* interrupted when an output file is configured
C18_CancelBeatsExhaustion == [][C18_BreakBeforeCheck]_vars

C18_Witness ==
    /\ pc = "interrupted"
    /\ ~finished
    /\ AllEnded(endeds)
    /\ \A i \in DOMAIN iters :
         /\ i \in DOMAIN endeds
         /\ Yielded(iters[i])[2]
         /\ iters[i].calls = nb_frames + 1

\* a source turned out to hold no frame, or could not be opened
SomeSourceEmpty ==
    \E i \in DOMAIN iters : iters[i].ended /\ iters[i].cap.pos = 0

\* C19: a loop entered without preview, over sources that all hold a frame,
\* ends by exhaustion and run returns; stated for the runs without output
\* file, and leaving aside the runs that an exception aborts
C19_TerminatesExhausted ==
    (pc = "loop_head" /\ ~args.preview /\ ~args.output)
        ~> \/ pc = "returned" /\ finished
           \/ SomeSourceEmpty
           \/ pc = "crashed"

====
